---------------------------- MODULE Spec2Model ----------------------------
(***************************************************************************)
(* Model of ykchalresp (src/src/main.rs): the hex / modhex codec, the      *)
(* slot-secret lookup, SHA-1 and HMAC-SHA1.                                *)
(*                                                                         *)
(* Bytes are naturals 0..255.  A Rust &str / String is the sequence of its *)
(* bytes (ASCII codes), a Vec<u8> / [u8; N] is a sequence of bytes.  A u32 *)
(* is the pair <<high 16 bits, low 16 bits>>, because the model checker's  *)
(* integers are narrower than 2^32.                                        *)
(***************************************************************************)
EXTENDS Integers, Sequences, FiniteSets, TLC

-----------------------------------------------------------------------------
(* Encoding helpers (main.rs 157-211) *)

\* Result<Vec<u8>, String> of from_hex: Ok(val), or Err(err) where ch is the
\* offending byte of "invalid hex digit: {ch}"
HexOk(v) == [ok |-> TRUE, val |-> v, err |-> "", ch |-> 0]
HexErr(e, c) == [ok |-> FALSE, val |-> <<>>, err |-> e, ch |-> c]

\* const HEX: b"0123456789abcdef" (main.rs 158)
HEX == <<48, 49, 50, 51, 52, 53, 54, 55, 56, 57, 97, 98, 99, 100, 101, 102>>

RECURSIVE ToHexLoop_LowFirst(_, _, _)
\* faulty variant of ToHexLoop: the low nibble is pushed first
ToHexLoop_LowFirst(data, i, out) ==
    IF i > Len(data) THEN out
    ELSE ToHexLoop_LowFirst(data, i + 1,
             Append(Append(out, HEX[(data[i] % 16) + 1]), HEX[(data[i] \div 16) + 1]))

RECURSIVE ToHexLoop(_, _, _)
\* for &b in data { out.push(HEX[b >> 4]); out.push(HEX[b & 0x0f]) } (main.rs 160-163)
ToHexLoop(data, i, out) ==
    IF i > Len(data) THEN out
    ELSE ToHexLoop(data, i + 1,
             Append(Append(out, HEX[(data[i] \div 16) + 1]), HEX[(data[i] % 16) + 1]))

\* fn to_hex (main.rs 157-165)
to_hex(data) == ToHexLoop(data, 1, <<>>)

\* char::is_whitespace on the ASCII range: TAB, LF, VT, FF, CR, space
IsWhitespace(c) == c \in (9..13) \cup {32}

RECURSIVE TrimStart(_)
TrimStart(s) ==
    IF s # <<>> /\ IsWhitespace(Head(s)) THEN TrimStart(Tail(s)) ELSE s

RECURSIVE TrimEnd(_)
TrimEnd(s) ==
    IF s # <<>> /\ IsWhitespace(s[Len(s)]) THEN TrimEnd(SubSeq(s, 1, Len(s) - 1)) ELSE s

\* str::trim, as called at main.rs 168 and 143
trim(s) == TrimEnd(TrimStart(s))

\* faulty variant of HexVal: the digit range runs one past '9' and takes ':'
HexVal_ColonDigit(c) ==
    IF c \in 48..58 THEN [ok |-> TRUE, v |-> c - 48]
    ELSE IF c \in 97..102 THEN [ok |-> TRUE, v |-> 10 + c - 97]
    ELSE IF c \in 65..70 THEN [ok |-> TRUE, v |-> 10 + c - 65]
    ELSE [ok |-> FALSE, v |-> 0]

\* faulty variant of HexVal: the upper-case branch forgets the 10
HexVal_UpperNoOffset(c) ==
    IF c \in 48..57 THEN [ok |-> TRUE, v |-> c - 48]
    ELSE IF c \in 97..102 THEN [ok |-> TRUE, v |-> 10 + c - 97]
    ELSE IF c \in 65..70 THEN [ok |-> TRUE, v |-> c - 65]
    ELSE [ok |-> FALSE, v |-> 0]

\* the closure `val` of from_hex (main.rs 174-181) and the match of to_modhex
\* (main.rs 199-207): the nibble of an ASCII hex digit, or no value
HexVal(c) ==
    IF c \in 48..57 THEN [ok |-> TRUE, v |-> c - 48]
    ELSE IF c \in 97..102 THEN [ok |-> TRUE, v |-> 10 + c - 97]
    ELSE IF c \in 65..70 THEN [ok |-> TRUE, v |-> 10 + c - 65]
    ELSE [ok |-> FALSE, v |-> 0]

RECURSIVE FromHexLoop(_, _, _)
\* while i < bytes.len() { hi = val(bytes[i])?; lo = val(bytes[i + 1])?; ... }
\* (main.rs 182-189); i is 1-based here
FromHexLoop(bytes, i, out) ==
    IF i > Len(bytes) THEN HexOk(out)
    ELSE LET hi == HexVal(bytes[i])
         IN  IF ~hi.ok THEN HexErr("invalid hex digit", bytes[i])
             ELSE LET lo == HexVal(bytes[i + 1])
                  IN  IF ~lo.ok THEN HexErr("invalid hex digit", bytes[i + 1])
                      ELSE FromHexLoop(bytes, i + 2, Append(out, hi.v * 16 + lo.v))

\* fn from_hex (main.rs 167-190)
from_hex(s0) ==
    LET s == trim(s0)
    IN  IF Len(s) % 2 # 0 THEN HexErr("odd-length hex string", 0)
        ELSE FromHexLoop(s, 1, <<>>)

\* faulty variant of MODHEX: "cbdefghijklmrtuv", 'm' for 'n'
MODHEX_Typo == <<99, 98, 100, 101, 102, 103, 104, 105, 106, 107, 108, 109, 114, 116, 117, 118>>

\* const MODHEX: "cbdefghijklnrtuv" (main.rs 194-196)
MODHEX == <<99, 98, 100, 101, 102, 103, 104, 105, 106, 107, 108, 110, 114, 116, 117, 118>>

RECURSIVE ToModhexLoop(_, _, _)
\* for b in hex.bytes() { ... continue / out.push(MODHEX[v]) } (main.rs 198-209)
ToModhexLoop(hex, i, out) ==
    IF i > Len(hex) THEN out
    ELSE LET v == HexVal(hex[i])
         IN  IF ~v.ok THEN ToModhexLoop(hex, i + 1, out)
             ELSE ToModhexLoop(hex, i + 1, Append(out, MODHEX[v.v + 1]))

\* fn to_modhex (main.rs 192-211)
to_modhex(hex) == ToModhexLoop(hex, 1, <<>>)

-----------------------------------------------------------------------------
(* u32 arithmetic as used by sha1 *)

\* a u32 built from four bytes, big-endian (main.rs 263-266)
U32(b3, b2, b1, b0) == <<b3 * 256 + b2, b1 * 256 + b0>>

\* u32::to_be_bytes
to_be_bytes(x) == <<x[1] \div 256, x[1] % 256, x[2] \div 256, x[2] % 256>>

\* ^ on two 4-bit values
Xor4(p, q) ==
    ((p + q) % 2) + 2 * (((p \div 2) + (q \div 2)) % 2)
        + 4 * (((p \div 4) + (q \div 4)) % 2) + 8 * (((p \div 8) + (q \div 8)) % 2)

\* & on two 4-bit values
And4(p, q) ==
    ((p % 2) * (q % 2)) + 2 * (((p \div 2) % 2) * ((q \div 2) % 2))
        + 4 * (((p \div 4) % 2) * ((q \div 4) % 2)) + 8 * ((p \div 8) * (q \div 8))

\* ^ on two 16-bit values, nibble by nibble
Xor16(p, q) ==
    Xor4(p % 16, q % 16) + 16 * Xor4((p \div 16) % 16, (q \div 16) % 16)
        + 256 * Xor4((p \div 256) % 16, (q \div 256) % 16)
        + 4096 * Xor4(p \div 4096, q \div 4096)

\* & on two 16-bit values, nibble by nibble
And16(p, q) ==
    And4(p % 16, q % 16) + 16 * And4((p \div 16) % 16, (q \div 16) % 16)
        + 256 * And4((p \div 256) % 16, (q \div 256) % 16)
        + 4096 * And4(p \div 4096, q \div 4096)

\* ^ on u32
Xor(x, y) == <<Xor16(x[1], y[1]), Xor16(x[2], y[2])>>

\* & on u32
And(x, y) == <<And16(x[1], y[1]), And16(x[2], y[2])>>

\* ! on u32
Not(x) == <<65535 - x[1], 65535 - x[2]>>

\* | on u32
Or(x, y) == Not(And(Not(x), Not(y)))

\* u32::rotate_left by n in 0..31
rotate_left(x, n) ==
    LET hi == IF n >= 16 THEN x[2] ELSE x[1]
        lo == IF n >= 16 THEN x[1] ELSE x[2]
        m  == n % 16
    IN  << ((hi * 2^m) % 65536) + (lo \div 2^(16 - m)),
           ((lo * 2^m) % 65536) + (hi \div 2^(16 - m)) >>

\* u32::wrapping_add: addition modulo 2^32
wrapping_add(x, y) ==
    LET lo == x[2] + y[2]
    IN  << (x[1] + y[1] + (lo \div 65536)) % 65536, lo % 65536 >>

-----------------------------------------------------------------------------
(* SHA-1 (main.rs 242-316) *)

\* initial h0..h4 (main.rs 244-248)
H_INIT ==
    << U32(103, 69, 35, 1),       \* 0x67452301
       U32(239, 205, 171, 137),   \* 0xEFCDAB89
       U32(152, 186, 220, 254),   \* 0x98BADCFE
       U32(16, 50, 84, 118),      \* 0x10325476
       U32(195, 210, 225, 240) >> \* 0xC3D2E1F0

\* round constants (main.rs 280-286)
K1 == U32(90, 130, 121, 153)      \* 0x5A827999
K2 == U32(110, 217, 235, 161)     \* 0x6ED9EBA1
K3 == U32(143, 27, 188, 220)      \* 0x8F1BBCDC
K4 == U32(202, 98, 193, 214)      \* 0xCA62C1D6

RECURSIVE PadZeros_ToBlock(_)
\* faulty variant of PadZeros: pads to a multiple of 64 before the length
PadZeros_ToBlock(data) ==
    IF Len(data) % 64 # 0 THEN PadZeros_ToBlock(Append(data, 0)) ELSE data

RECURSIVE PadZeros(_)
\* while (data.len() % 64) != 56 { data.push(0) }  (main.rs 254-256)
PadZeros(data) ==
    IF Len(data) % 64 # 56 THEN PadZeros(Append(data, 0)) ELSE data

RECURSIVE U64BeBytes(_, _)
\* u64::to_be_bytes: the k low-order bytes of ml, most significant first
U64BeBytes(ml, k) ==
    IF k = 0 THEN <<>> ELSE Append(U64BeBytes(ml \div 256, k - 1), ml % 256)

\* the padding step (main.rs 251-257)
Sha1Pad(message) ==
    LET ml == Len(message) * 8
    IN  PadZeros(Append(message, 128)) \o U64BeBytes(ml, 8)

\* data.chunks(64): the c-th chunk (c from 0); the last one may be short
Chunk(data, c) ==
    SubSeq(data, 64 * c + 1, IF 64 * (c + 1) < Len(data) THEN 64 * (c + 1) ELSE Len(data))

\* number of chunks data.chunks(64) yields
NumChunks(data) == (Len(data) + 63) \div 64

RECURSIVE Schedule(_)
\* for i in 16..80 { w[i] = ... } (main.rs 268-270).  w holds w[0..i), 1-based
\* here, so that i = Len(w)
Schedule(w) ==
    IF Len(w) = 80 THEN w
    ELSE LET i == Len(w)
         IN  Schedule(Append(w, rotate_left(
                 Xor(Xor(Xor(w[i - 3 + 1], w[i - 8 + 1]), w[i - 14 + 1]), w[i - 16 + 1]), 1)))

\* w[0..16) from the chunk's bytes (main.rs 261-267)
RECURSIVE ChunkWords(_, _)
ChunkWords(chunk, i) ==
    IF i = 16 THEN <<>>
    ELSE <<U32(chunk[4 * i + 1], chunk[4 * i + 2], chunk[4 * i + 3], chunk[4 * i + 4])>>
             \o ChunkWords(chunk, i + 1)

\* (f, k) of round i (main.rs 279-287)
RoundF(i, b, c, d) ==
    IF i < 20 THEN Or(And(b, c), And(Not(b), d))
    ELSE IF i < 40 THEN Xor(Xor(b, c), d)
    ELSE IF i < 60 THEN Or(Or(And(b, c), And(b, d)), And(c, d))
    ELSE Xor(Xor(b, c), d)

\* faulty variant of RoundK: the constants of rounds 20..39 and 40..59 swapped
RoundK_Swapped(i) ==
    IF i < 20 THEN K1 ELSE IF i < 40 THEN K3 ELSE IF i < 60 THEN K2 ELSE K4

RoundK(i) ==
    IF i < 20 THEN K1 ELSE IF i < 40 THEN K2 ELSE IF i < 60 THEN K3 ELSE K4

\* one round on st = <<i, a, b, c, d, e>> (main.rs 279-299)
Round(st, w) ==
    LET i == st[1]
        a == st[2]
        b == st[3]
        c == st[4]
        d == st[5]
        e == st[6]
        temp == wrapping_add(wrapping_add(wrapping_add(wrapping_add(
                    rotate_left(a, 5), RoundF(i, b, c, d)), e), RoundK(i)), w[i + 1])
    IN  <<i + 1, temp, a, rotate_left(b, 30), c, d>>

RECURSIVE Rounds(_, _)
\* for i in 0..80 { ... } (main.rs 278-300)
Rounds(st, w) == IF st[1] = 80 THEN st ELSE Rounds(Round(st, w), w)

\* one iteration of `for chunk in data.chunks(64)` on h = <<h0..h4>> (main.rs 259-307)
ProcessChunk(h, chunk) ==
    LET w == Schedule(ChunkWords(chunk, 0))
        s == Rounds(<<0, h[1], h[2], h[3], h[4], h[5]>>, w)
    IN  << wrapping_add(h[1], s[2]), wrapping_add(h[2], s[3]), wrapping_add(h[3], s[4]),
           wrapping_add(h[4], s[5]), wrapping_add(h[5], s[6]) >>

\* the 20 output bytes (main.rs 309-315)
Sha1Out(h) ==
    to_be_bytes(h[1]) \o to_be_bytes(h[2]) \o to_be_bytes(h[3]) \o to_be_bytes(h[4])
        \o to_be_bytes(h[5])

RECURSIVE Sha1Chunks(_, _)
\* h0..h4 after the first c chunks of data (main.rs 259-307)
Sha1Chunks(data, c) ==
    IF c = 0 THEN H_INIT ELSE ProcessChunk(Sha1Chunks(data, c - 1), Chunk(data, c - 1))

\* fn sha1 (main.rs 242-316)
sha1(message) ==
    LET data == Sha1Pad(message)
    IN  Sha1Out(Sha1Chunks(data, NumChunks(data)))

-----------------------------------------------------------------------------
(* HMAC-SHA1 (main.rs 215-240) *)

\* const BLOCK (main.rs 216)
BLOCK == 64

\* Vec::resize(n, 0): truncate to n, or extend with zeros to n
Resize(v, n) ==
    IF Len(v) >= n THEN SubSeq(v, 1, n) ELSE v \o [i \in 1..(n - Len(v)) |-> 0]

\* faulty variant of NormalizeKey: a key of exactly BLOCK bytes is hashed too
NormalizeKey_Ge(key) ==
    Resize(IF Len(key) >= BLOCK THEN sha1(key) ELSE key, BLOCK)

\* the 64-byte working key k (main.rs 217-222)
NormalizeKey(key) ==
    Resize(IF Len(key) > BLOCK THEN sha1(key) ELSE key, BLOCK)

\* faulty variant of Ipad: the outer constant 0x5c
Ipad_0x5c(k) == [i \in 1..BLOCK |-> Xor16(k[i], 92)]

\* ipad[i] = k[i] ^ 0x36 (main.rs 227)
Ipad(k) == [i \in 1..BLOCK |-> Xor16(k[i], 54)]

\* opad[i] = k[i] ^ 0x5c (main.rs 228)
Opad(k) == [i \in 1..BLOCK |-> Xor16(k[i], 92)]

\* inner_hash = sha1(ipad || message) (main.rs 231-234)
InnerHash(ipad, message) == sha1(ipad \o message)

\* sha1(opad || inner_hash) (main.rs 236-239)
OuterHash(opad, inner_hash) == sha1(opad \o inner_hash)

\* fn hmac_sha1 (main.rs 215-240)
hmac_sha1(key, message) ==
    LET k == NormalizeKey(key)
    IN  OuterHash(Opad(k), InnerHash(Ipad(k), message))

-----------------------------------------------------------------------------
(* Slot secret lookup (main.rs 115-153) *)

\* an environment variable: unset, set to a Unicode string val, or set to
\* bytes that are not valid Unicode (env::var returns Err for the first and
\* the last)
EnvUnset == [state |-> "unset", val |-> <<>>]
EnvNotUnicode == [state |-> "not_unicode", val |-> <<>>]
EnvSet(v) == [state |-> "set", val |-> v]

\* a file: missing, not valid UTF-8 (fs::read_to_string fails on both), or
\* holding the text val
FileMissing == [state |-> "missing", val |-> <<>>]
FileNotUtf8 == [state |-> "not_utf8", val |-> <<>>]
FileText(v) == [state |-> "text", val |-> v]

\* Result<Vec<u8>, String> of load_slot_secret: the message is kept as its
\* text err, the names it is formatted with (source) and the from_hex error
\* it wraps (cause); reads lists the paths handed to fs::read_to_string
SecretOk(v, r) ==
    [ok |-> TRUE, val |-> v, err |-> "", source |-> <<>>, cause |-> "", reads |-> r]
SecretErr(e, src, c, r) ==
    [ok |-> FALSE, val |-> <<>>, err |-> e, source |-> src, cause |-> c, reads |-> r]

\* env_name of a slot (main.rs 117-121)
EnvName(slot) ==
    IF slot = 1 THEN "YKCHALRESP_SLOT1_KEY" ELSE "YKCHALRESP_SLOT2_KEY"

\* the key file's name (main.rs 129-133)
KeyFile(slot) == IF slot = 1 THEN "slot1.key" ELSE "slot2.key"

\* fn dirs_home (main.rs 147-153): Some(home) = <<home>>, None = <<>>
dirs_home(env) ==
    IF env["HOME"].state = "set" THEN <<env["HOME"].val>> ELSE <<>>

\* the path built at main.rs 127-134
KeyPath(home, slot) == home \o <<".config/ykchalresp", KeyFile(slot)>>

\* step 2 of load_slot_secret: the config file (main.rs 126-144)
LoadFromFile(slot, env, fs) ==
    IF dirs_home(env) = <<>>
    THEN SecretErr("Cannot resolve home directory", <<>>, "", <<>>)
    ELSE LET path == KeyPath(dirs_home(env)[1], slot)
         IN  IF fs[slot].state # "text"
             THEN SecretErr("Missing secret", <<EnvName(slot)>> \o path, "", <<path>>)
             ELSE LET r == from_hex(trim(fs[slot].val))
                  IN  IF r.ok THEN SecretOk(r.val, <<path>>)
                      ELSE SecretErr("contains invalid hex", path, r.err, <<path>>)

\* faulty variant of load_slot_secret: the file is consulted before the variable
load_slot_secret_FileFirst(slot, env, fs) ==
    IF slot \notin {1, 2}
    THEN SecretErr("Invalid slot; must be 1 or 2", <<>>, "", <<>>)
    ELSE IF dirs_home(env) # <<>> /\ fs[slot].state = "text"
    THEN LoadFromFile(slot, env, fs)
    ELSE IF env[EnvName(slot)].state = "set"
    THEN LET r == from_hex(env[EnvName(slot)].val)
         IN  IF r.ok THEN SecretOk(r.val, <<>>)
             ELSE SecretErr("contains invalid hex", <<EnvName(slot)>>, r.err, <<>>)
    ELSE LoadFromFile(slot, env, fs)

\* fn load_slot_secret (main.rs 115-145).  env maps names to variables, fs
\* maps a slot to the file at that slot's path
load_slot_secret(slot, env, fs) ==
    IF slot \notin {1, 2}
    THEN SecretErr("Invalid slot; must be 1 or 2", <<>>, "", <<>>)
    ELSE IF env[EnvName(slot)].state = "set"
    THEN LET r == from_hex(env[EnvName(slot)].val)
         IN  IF r.ok THEN SecretOk(r.val, <<>>)
             ELSE SecretErr("contains invalid hex", <<EnvName(slot)>>, r.err, <<>>)
    ELSE LoadFromFile(slot, env, fs)

-----------------------------------------------------------------------------
(* Bounds and inputs *)

\* longest string over SampleChars given to from_hex / to_modhex
MaxStrLen == 3

\* longest byte sequence over SampleBytes given to to_hex
MaxBytesLen == 2

\* longest message given to sha1
MaxMsgLen == 120

\* longest key given to hmac_sha1
MaxKeyLen == 100

\* calls of load_slot_secret in one run
MaxCalls == 2

SeqsUpTo(S, n) == UNION {[1..m -> S] : m \in 0..n}

\* the sequence of n bytes f, f+1, ... (mod 256)
Fill(n, f) == [i \in 1..n |-> (f + i - 1) % 256]

\* ' ', '/', '0', ':', 'A', 'F', 'a', 'f', 'g': the hex ranges' ends, their
\* neighbours, and a space
SampleChars == {32, 47, 48, 58, 65, 70, 97, 102, 103}

\* [0-9a-fA-F]
HexChars == (48..57) \cup (65..70) \cup (97..102)

\* "deadbeef", "abc", "zz"
Str_deadbeef == <<100, 101, 97, 100, 98, 101, 101, 102>>
Str_abc == <<97, 98, 99>>
Str_zz == <<122, 122>>

\* the strings the codec is run on: short strings over SampleChars, every
\* one-character ASCII string, every pair of hex digits, a two-byte UTF-8
\* character (U+00E9) and the named examples
StrInputs ==
    SeqsUpTo(SampleChars, MaxStrLen)
        \cup {<<c>> : c \in 0..127}
        \cup {<<c1, c2>> : c1 \in HexChars, c2 \in HexChars}
        \cup {<<195, 169>>, Str_deadbeef, Str_abc, Str_zz}

SampleBytes == {0, 9, 10, 15, 16, 171, 255}

\* the byte sequences to_hex is run on
ByteInputs ==
    SeqsUpTo(SampleBytes, MaxBytesLen)
        \cup {<<b>> : b \in 0..255}
        \cup {<<222, 173, 190, 239>>}

\* b"The quick brown fox jumps over the lazy dog"
Fox ==
    <<84, 104, 101, 32, 113, 117, 105, 99, 107, 32, 98, 114, 111, 119, 110, 32,
      102, 111, 120, 32, 106, 117, 109, 112, 115, 32, 111, 118, 101, 114, 32,
      116, 104, 101, 32, 108, 97, 122, 121, 32, 100, 111, 103>>

\* b"key"
Str_key == <<107, 101, 121>>

\* the messages sha1 is run on: every length up to MaxMsgLen, starting at a
\* zero byte and at 0x80, and the test vector
ShaMessages == {Fill(n, f) : n \in 0..MaxMsgLen, f \in {0, 128}} \cup {Fox}

\* the keys and messages hmac_sha1 is run on: key lengths around BLOCK
HmacKeys ==
    {Fill(n, f) : n \in {0, 1, 20, 63, 64, 65, 66, MaxKeyLen}, f \in {1, 200}}
        \cup {Str_key}
HmacMessages == {<<>>, Fox, Fill(70, 33)}

\* values of the slot variables: "ab", "cdef", "zz", " AB", "abc"
EnvVals ==
    {EnvUnset, EnvNotUnicode, EnvSet(<<97, 98>>), EnvSet(<<99, 100, 101, 102>>),
     EnvSet(Str_zz), EnvSet(<<32, 65, 66>>), EnvSet(Str_abc)}

\* values of HOME
HomeVals == {EnvUnset, EnvNotUnicode, EnvSet(<<"/home/u">>)}

\* contents of the key files: "ab\n", "cdef", "zz"
FileVals ==
    {FileMissing, FileNotUtf8, FileText(<<97, 98, 10>>),
     FileText(<<99, 100, 101, 102>>), FileText(Str_zz)}

\* slot arguments: the two slots and one that is neither
SlotArgs == {1, 2, 3}

-----------------------------------------------------------------------------
(* State *)

VARIABLES
    cstage,     \* codec: "bytes" (cdata given), "hex" (ctext = to_hex(cdata)),
                \* "str" (ctext given), "idle"
    cdata,      \* the bytes given to to_hex
    ctext,      \* the string given to from_hex and to_modhex
    cdone,      \* which of from_hex, to_modhex have run on ctext
    cdecoded,   \* from_hex(ctext)
    cmodhex,    \* to_modhex(ctext)
    env,        \* the process environment
    fs,         \* the key file of each slot
    slot,       \* argument of the last load_slot_secret call
    secret,     \* its result and the files it read
    calls,      \* number of calls so far
    spc,        \* sha1: "pad", "chunks", "done", "idle"
    message,    \* sha1's argument
    data,       \* the padded buffer
    h,          \* <<h0, h1, h2, h3, h4>>
    ci,         \* chunks processed
    digest,     \* sha1's result
    hpc,        \* hmac_sha1: "key", "pads", "inner", "outer", "done", "idle"
    key,        \* hmac_sha1's arguments
    hmsg,
    k,          \* the working key
    ipad,
    opad,
    inner_hash,
    mac         \* hmac_sha1's result

codecVars == <<cstage, cdata, ctext, cdone, cdecoded, cmodhex>>
secretVars == <<env, fs, slot, secret, calls>>
shaVars == <<spc, message, data, h, ci, digest>>
hmacVars == <<hpc, key, hmsg, k, ipad, opad, inner_hash, mac>>
vars == <<codecVars, secretVars, shaVars, hmacVars>>

NoSecret == SecretErr("not called", <<>>, "", <<>>)

CodecIdle ==
    /\ cstage = "idle" /\ cdata = <<>> /\ ctext = <<>> /\ cdone = {}
    /\ cdecoded = HexOk(<<>>) /\ cmodhex = <<>>

SecretIdle ==
    /\ env = [n \in {"YKCHALRESP_SLOT1_KEY", "YKCHALRESP_SLOT2_KEY", "HOME"} |-> EnvUnset]
    /\ fs = [s \in {1, 2} |-> FileMissing]
    /\ slot = 0 /\ secret = NoSecret /\ calls = MaxCalls

ShaIdle ==
    /\ spc = "idle" /\ message = <<>> /\ data = <<>> /\ h = H_INIT /\ ci = 0
    /\ digest = <<>>

HmacIdle ==
    /\ hpc = "idle" /\ key = <<>> /\ hmsg = <<>> /\ k = <<>> /\ ipad = <<>>
    /\ opad = <<>> /\ inner_hash = <<>> /\ mac = <<>>

-----------------------------------------------------------------------------
(* Codec runs *)

CodecInit ==
    /\ cdone = {} /\ cdecoded = HexOk(<<>>) /\ cmodhex = <<>>
    /\ \/ cstage = "bytes" /\ cdata \in ByteInputs /\ ctext = <<>>
       \/ cstage = "str" /\ cdata = <<>> /\ ctext \in StrInputs
    /\ SecretIdle /\ ShaIdle /\ HmacIdle

\* to_hex(cdata)
ToHex ==
    /\ cstage = "bytes"
    /\ ctext' = to_hex(cdata)
    /\ cstage' = "hex"
    /\ UNCHANGED <<cdata, cdone, cdecoded, cmodhex, secretVars, shaVars, hmacVars>>

\* from_hex(ctext)
FromHex ==
    /\ cstage \in {"hex", "str"}
    /\ "from_hex" \notin cdone
    /\ cdecoded' = from_hex(ctext)
    /\ cdone' = cdone \cup {"from_hex"}
    /\ UNCHANGED <<cstage, cdata, ctext, cmodhex, secretVars, shaVars, hmacVars>>

\* to_modhex(ctext)
ToModhex ==
    /\ cstage \in {"hex", "str"}
    /\ "to_modhex" \notin cdone
    /\ cmodhex' = to_modhex(ctext)
    /\ cdone' = cdone \cup {"to_modhex"}
    /\ UNCHANGED <<cstage, cdata, ctext, cdecoded, secretVars, shaVars, hmacVars>>

CodecNext == ToHex \/ FromHex \/ ToModhex

SpecCodec == CodecInit /\ [][CodecNext]_vars

-----------------------------------------------------------------------------
(* Secret lookup runs *)

SecretInit ==
    /\ \E e1 \in EnvVals, e2 \in EnvVals, hv \in HomeVals :
           env = [n \in {"YKCHALRESP_SLOT1_KEY", "YKCHALRESP_SLOT2_KEY", "HOME"} |->
                      IF n = "HOME" THEN hv
                      ELSE IF n = "YKCHALRESP_SLOT1_KEY" THEN e1 ELSE e2]
    /\ fs \in [{1, 2} -> FileVals]
    /\ slot = 0 /\ secret = NoSecret /\ calls = 0
    /\ CodecIdle /\ ShaIdle /\ HmacIdle

\* one call load_slot_secret(s)
LoadSlotSecret(s) ==
    /\ calls < MaxCalls
    /\ slot' = s
    /\ secret' = load_slot_secret(s, env, fs)
    /\ calls' = calls + 1
    /\ UNCHANGED <<env, fs, codecVars, shaVars, hmacVars>>

SecretNext == \E s \in SlotArgs : LoadSlotSecret(s)

SpecSecret == SecretInit /\ [][SecretNext]_vars

-----------------------------------------------------------------------------
(* sha1 runs, one step per phase of the function *)

ShaInit ==
    /\ spc = "pad" /\ message \in ShaMessages
    /\ data = <<>> /\ h = H_INIT /\ ci = 0 /\ digest = <<>>
    /\ CodecIdle /\ SecretIdle /\ HmacIdle

\* main.rs 251-257
ShaPad ==
    /\ spc = "pad"
    /\ data' = Sha1Pad(message)
    /\ spc' = "chunks"
    /\ UNCHANGED <<message, h, ci, digest, codecVars, secretVars, hmacVars>>

\* one iteration of the loop at main.rs 259-307
ShaChunk ==
    /\ spc = "chunks"
    /\ ci < NumChunks(data)
    /\ h' = ProcessChunk(h, Chunk(data, ci))
    /\ ci' = ci + 1
    /\ UNCHANGED <<spc, message, data, digest, codecVars, secretVars, hmacVars>>

\* main.rs 309-315
ShaOut ==
    /\ spc = "chunks"
    /\ ci = NumChunks(data)
    /\ digest' = Sha1Out(h)
    /\ spc' = "done"
    /\ UNCHANGED <<message, data, h, ci, codecVars, secretVars, hmacVars>>

ShaNext == ShaPad \/ ShaChunk \/ ShaOut

SpecSha == ShaInit /\ [][ShaNext]_vars

-----------------------------------------------------------------------------
(* hmac_sha1 runs, one step per phase of the function *)

HmacInit ==
    /\ hpc = "key" /\ key \in HmacKeys /\ hmsg \in HmacMessages
    /\ k = <<>> /\ ipad = <<>> /\ opad = <<>> /\ inner_hash = <<>> /\ mac = <<>>
    /\ CodecIdle /\ SecretIdle /\ ShaIdle

\* main.rs 217-222
HmacKey ==
    /\ hpc = "key"
    /\ k' = NormalizeKey(key)
    /\ hpc' = "pads"
    /\ UNCHANGED <<key, hmsg, ipad, opad, inner_hash, mac, codecVars, secretVars, shaVars>>

\* main.rs 224-229
HmacPads ==
    /\ hpc = "pads"
    /\ ipad' = Ipad(k)
    /\ opad' = Opad(k)
    /\ hpc' = "inner"
    /\ UNCHANGED <<key, hmsg, k, inner_hash, mac, codecVars, secretVars, shaVars>>

\* main.rs 231-234
HmacInner ==
    /\ hpc = "inner"
    /\ inner_hash' = InnerHash(ipad, hmsg)
    /\ hpc' = "outer"
    /\ UNCHANGED <<key, hmsg, k, ipad, opad, mac, codecVars, secretVars, shaVars>>

\* main.rs 236-239
HmacOuter ==
    /\ hpc = "outer"
    /\ mac' = OuterHash(opad, inner_hash)
    /\ hpc' = "done"
    /\ UNCHANGED <<key, hmsg, k, ipad, opad, inner_hash, codecVars, secretVars, shaVars>>

HmacNext == HmacKey \/ HmacPads \/ HmacInner \/ HmacOuter

SpecHmac == HmacInit /\ [][HmacNext]_vars

-----------------------------------------------------------------------------
(* The step machines agree with the functions they unfold *)

ShaStepsAgree == spc = "done" => digest = sha1(message)
HmacStepsAgree == hpc = "done" => mac = hmac_sha1(key, hmsg)

-----------------------------------------------------------------------------
(* Properties of the codec, under SpecCodec *)

\* the lower-case hex digit of a nibble
LowerHexDigit(n) == IF n < 10 THEN 48 + n ELSE 97 + (n - 10)

\* "0123456789abcdef", "0123456789ABCDEF", "cbdefghijklnrtuv", "tultnuuv"
DigitsLower == <<48, 49, 50, 51, 52, 53, 54, 55, 56, 57, 97, 98, 99, 100, 101, 102>>
DigitsUpper == <<48, 49, 50, 51, 52, 53, 54, 55, 56, 57, 65, 66, 67, 68, 69, 70>>
ModhexAlphabet == <<99, 98, 100, 101, 102, 103, 104, 105, 106, 107, 108, 110, 114, 116, 117, 118>>
Str_tultnuuv == <<116, 117, 108, 116, 110, 117, 117, 118>>

\* the nibble a hex digit stands for
NibbleOf(c) == CHOOSE n \in 0..15 : DigitsLower[n + 1] = c \/ DigitsUpper[n + 1] = c

AllHex(s) == \A i \in 1..Len(s) : s[i] \in HexChars

\* s is whitespace, then an even number of hex digits, then whitespace
HexCore(s) ==
    \E a \in 0..Len(s) : \E b \in a..Len(s) :
        /\ \A i \in 1..a : s[i] \in {9, 10, 11, 12, 13, 32}
        /\ \A i \in (b + 1)..Len(s) : s[i] \in {9, 10, 11, 12, 13, 32}
        /\ \A i \in (a + 1)..b : s[i] \in HexChars
        /\ (b - a) % 2 = 0

\* C4 as stated: from_hex fails for every input string whose length is odd or
\* that contains a character outside [0-9a-fA-F]
C4_Original ==
    ("from_hex" \in cdone /\ (Len(ctext) % 2 = 1 \/ ~AllHex(ctext))) => ~cdecoded.ok

\* C4 amended: from_hex fails for every input string that, once leading and
\* trailing whitespace is removed, has odd length or contains a character
\* outside [0-9a-fA-F]; every string it accepts is whitespace around an even
\* number of hex digits
C4_FromHexRejects ==
    ("from_hex" \in cdone /\ ~HexCore(ctext)) => ~cdecoded.ok

\* " 0g" is rejected for its 'g', not for its length of 3
C4_Witness ==
    /\ "from_hex" \in cdone /\ ctext = <<32, 48, 103>>
    /\ ~cdecoded.ok /\ cdecoded.err = "invalid hex digit" /\ cdecoded.ch = 103

\* C5: for every byte sequence b, from_hex(to_hex(b)) succeeds and returns b;
\* to_hex emits two lower-case hex characters per byte, high nibble first
C5_RoundTrip ==
    cstage = "hex" =>
        /\ Len(ctext) = 2 * Len(cdata)
        /\ \A i \in 1..Len(cdata) :
               /\ ctext[2 * i - 1] = LowerHexDigit(cdata[i] \div 16)
               /\ ctext[2 * i] = LowerHexDigit(cdata[i] % 16)
        /\ "from_hex" \in cdone => (cdecoded.ok /\ cdecoded.val = cdata)

C5_Witness ==
    /\ cstage = "hex" /\ cdata = <<222, 173, 190, 239>> /\ ctext = Str_deadbeef
    /\ "from_hex" \in cdone /\ cdecoded.ok /\ cdecoded.val = cdata

\* C8: for every valid hex string h, to_modhex(h) has the length of h and its
\* i-th character is the symbol of cbdefghijklnrtuv at the nibble value of h's
\* i-th character; to_modhex("deadbeef") = "tultnuuv"
C8_Modhex ==
    ("to_modhex" \in cdone /\ AllHex(ctext)) =>
        /\ Len(cmodhex) = Len(ctext)
        /\ \A i \in 1..Len(ctext) : cmodhex[i] = ModhexAlphabet[NibbleOf(ctext[i]) + 1]
        /\ ctext = Str_deadbeef => cmodhex = Str_tultnuuv

C8_Witness ==
    "to_modhex" \in cdone /\ ctext = Str_deadbeef /\ cmodhex = Str_tultnuuv

\* the lower-case form of an ASCII letter
Lower(c) == IF c \in 65..90 THEN c + 32 ELSE c

\* a string of two hex digits has been encoded
TwoDigits == "to_modhex" \in cdone /\ Len(ctext) = 2 /\ AllHex(ctext)

\* C9 as stated: any two distinct hex characters of [0-9a-fA-F] are mapped to
\* distinct modhex characters
C9_Original ==
    (TwoDigits /\ ctext[1] # ctext[2]) => cmodhex[1] # cmodhex[2]

\* C9 amended: two hex characters of [0-9a-fA-F] are mapped to the same modhex
\* character exactly when they are equal or the same letter in different case
\* ('a' and 'A' both give 'l'); to_modhex is injective on [0-9a-f]
C9_InjectiveUpToCase ==
    TwoDigits => (cmodhex[1] = cmodhex[2] <=> Lower(ctext[1]) = Lower(ctext[2]))

\* "aB" gives "ln"
C9_Witness == TwoDigits /\ ctext = <<97, 66>> /\ cmodhex = <<108, 110>>

-----------------------------------------------------------------------------
(* Properties of the secret lookup, under SpecSecret *)

\* the variable and the file of the slot just looked up
SlotVar ==
    IF slot = 1 THEN env["YKCHALRESP_SLOT1_KEY"] ELSE env["YKCHALRESP_SLOT2_KEY"]
SlotVarName == IF slot = 1 THEN "YKCHALRESP_SLOT1_KEY" ELSE "YKCHALRESP_SLOT2_KEY"
SlotFile == fs[slot]

Looked == calls >= 1 /\ slot \in {1, 2}

\* the variable and the file both hold valid hex, for different keys
BothPresent ==
    /\ Looked
    /\ SlotVar.state = "set" /\ from_hex(SlotVar.val).ok
    /\ SlotFile.state = "text" /\ from_hex(SlotFile.val).ok
    /\ from_hex(SlotVar.val).val # from_hex(SlotFile.val).val

\* C6: when the slot's variable and the slot's key file are both present with
\* different valid hex values, load_slot_secret returns the decoded value of
\* the variable, never the file's, and does not read the file
C6_EnvFirst ==
    BothPresent =>
        /\ secret.ok
        /\ secret.val = from_hex(SlotVar.val).val
        /\ secret.val # from_hex(SlotFile.val).val
        /\ secret.reads = <<>>

\* slot 1 with YKCHALRESP_SLOT1_KEY = "cdef" and slot1.key = "ab\n"
C6_Witness ==
    /\ BothPresent /\ slot = 1 /\ env["HOME"].state = "set"
    /\ SlotVar.val = <<99, 100, 101, 102>> /\ SlotFile.val = <<97, 98, 10>>
    /\ secret.ok /\ secret.val = <<205, 239>>

\* the slot's variable is present but its value is not hex
VarPresentNotHex ==
    \/ SlotVar.state = "not_unicode"
    \/ SlotVar.state = "set" /\ ~from_hex(SlotVar.val).ok

\* C7: when the slot's variable is present but its value does not decode as
\* hex, load_slot_secret fails with the invalid-hex error naming that variable
\* and does not read the key file; the file is read only when the variable is
\* absent, and at most once per call
C7_NoFallback ==
    Looked =>
        /\ VarPresentNotHex =>
               /\ ~secret.ok
               /\ secret.err = "contains invalid hex"
               /\ secret.source = <<SlotVarName>>
               /\ secret.reads = <<>>
        /\ secret.reads # <<>> => SlotVar.state = "unset"
        /\ Len(secret.reads) <= 1

\* C7 restricted to values env::var can return: it holds when the variable is
\* unset or valid Unicode
C7_UnicodeOnly ==
    (Looked /\ SlotVar.state # "not_unicode") => C7_NoFallback

-----------------------------------------------------------------------------
(* Properties of sha1, under SpecSha *)

\* "da39a3ee5e6b4b0d3255bfef95601890afd80709"
Hex_da39 ==
    <<100, 97, 51, 57, 97, 51, 101, 101, 53, 101, 54, 98, 52, 98, 48, 100, 51, 50,
      53, 53, 98, 102, 101, 102, 57, 53, 54, 48, 49, 56, 57, 48, 97, 102, 100, 56,
      48, 55, 48, 57>>

\* "2fd4e1c67a2d28fced849ee1bb76e7391b93eb12"
Hex_2fd4 ==
    <<50, 102, 100, 52, 101, 49, 99, 54, 55, 97, 50, 100, 50, 56, 102, 99, 101, 100,
      56, 52, 57, 101, 101, 49, 98, 98, 55, 54, 101, 55, 51, 57, 49, 98, 57, 51,
      101, 98, 49, 50>>

\* C2: sha1 of the empty message is da39a3ee..., sha1 of the fox sentence is
\* 2fd4e1c6... (both rendered by to_hex), and the result is always 20 bytes
C2_Sha1Vectors ==
    spc = "done" =>
        /\ Len(digest) = 20
        /\ \A i \in 1..Len(digest) : digest[i] \in 0..255
        /\ message = <<>> => to_hex(digest) = Hex_da39
        /\ message = Fox => to_hex(digest) = Hex_2fd4

C2_Witness == spc = "done" /\ message = Fox /\ to_hex(digest) = Hex_2fd4

\* C10: for every message length n the padding step ends with a buffer whose
\* length is the smallest multiple of 64 that is >= n + 9: the message, one
\* byte 0x80, zero bytes, then 8 * n as 8 big-endian bytes; every chunk
\* processed is a full 64 bytes (n = 55 gives one block, n = 56 and 64 two)
C10_Padding ==
    spc \in {"chunks", "done"} =>
        LET n == Len(message)
            L == Len(data)
        IN  /\ L % 64 = 0 /\ L >= n + 9 /\ L - 64 < n + 9
            /\ SubSeq(data, 1, n) = message
            /\ data[n + 1] = 128
            /\ \A i \in (n + 2)..(L - 8) : data[i] = 0
            /\ \A i \in (L - 7)..(L - 3) : data[i] = 0
            /\ data[L - 2] * 65536 + data[L - 1] * 256 + data[L] = 8 * n
            /\ NumChunks(data) * 64 = L
            /\ \A c \in 0..(NumChunks(data) - 1) : Len(Chunk(data, c)) = 64
            /\ n = 55 => L = 64
            /\ n \in {56, 64} => L = 128

\* a message of 56 bytes padded to two blocks, both processed
C10_Witness ==
    spc = "done" /\ Len(message) = 56 /\ Len(data) = 128 /\ ci = 2

-----------------------------------------------------------------------------
(* Properties of hmac_sha1, under SpecHmac *)

\* "de7c9b85b8b78aa6bc8a7a36f70a90701c9db4d9"
Hex_de7c ==
    <<100, 101, 55, 99, 57, 98, 56, 53, 98, 56, 98, 55, 56, 97, 97, 54, 98, 99, 56,
      97, 55, 97, 51, 54, 102, 55, 48, 97, 57, 48, 55, 48, 49, 99, 57, 100, 98, 52,
      100, 57>>

\* n zero bytes
Zeros(n) == [i \in 1..n |-> 0]

\* a ^ c on bytes, bit by bit
XorByte(a, c) ==
    LET bit(j) == (((a \div 2^j) % 2) + ((c \div 2^j) % 2)) % 2
    IN  bit(0) + 2 * bit(1) + 4 * bit(2) + 8 * bit(3) + 16 * bit(4) + 32 * bit(5)
            + 64 * bit(6) + 128 * bit(7)

\* the key normalized to 64 bytes, as HMAC defines it
HmacK(ky) == IF Len(ky) > 64 THEN sha1(ky) \o Zeros(44) ELSE ky \o Zeros(64 - Len(ky))

\* sha1((K xor 0x5c..) || sha1((K xor 0x36..) || msg))
StandardHmac(ky, msg) ==
    LET K == HmacK(ky)
    IN  sha1([i \in 1..64 |-> XorByte(K[i], 92)]
                 \o sha1([i \in 1..64 |-> XorByte(K[i], 54)] \o msg))

\* C1: hmac_sha1(key, message) is sha1((K xor 0x5c) || sha1((K xor 0x36) ||
\* message)) for the key K normalized to 64 bytes; hmac_sha1(b"key", fox)
\* rendered by to_hex is de7c9b85b8b78aa6bc8a7a36f70a90701c9db4d9
C1_HmacStandard ==
    hpc = "done" =>
        /\ mac = StandardHmac(key, hmsg)
        /\ (key = Str_key /\ hmsg = Fox) => to_hex(mac) = Hex_de7c

C1_Witness ==
    hpc = "done" /\ key = Str_key /\ hmsg = Fox /\ to_hex(mac) = Hex_de7c

\* C3: for a key longer than 64 bytes hmac_sha1(key, message) equals
\* hmac_sha1(k2, message) with k2 = sha1(key) zero-padded to 64 bytes; a key
\* of 64 bytes or fewer is only zero-padded to 64 bytes, never hashed or cut
C3_LongKey ==
    /\ hpc \in {"pads", "inner", "outer", "done"} =>
           /\ Len(k) = 64
           /\ Len(key) <= 64 => k = key \o Zeros(64 - Len(key))
           /\ Len(key) > 64 => k = sha1(key) \o Zeros(44)
    /\ (hpc = "done" /\ Len(key) > 64) =>
           mac = hmac_sha1(sha1(key) \o Zeros(44), hmsg)

\* a key of 100 bytes and its pre-hashed, padded equivalent give the same MAC
C3_Witness ==
    /\ hpc = "done" /\ Len(key) = 100 /\ hmsg = Fox
    /\ mac = hmac_sha1(sha1(key) \o Zeros(44), hmsg)

=============================================================================
